---- MODULE Spec2Model ----
(***************************************************************************)
(* Model of seed_url.py: the URL filter (is_valid_link), the page fetch    *)
(* (process_page) and the batch crawl loop (crawl_all_parallel).           *)
(*                                                                         *)
(* Strings are sequences of tokens.  A token is a maximal piece of text    *)
(* that none of the patterns the code searches for (prefixes, suffixes,    *)
(* substrings, the delimiters of urlparse) cuts in two, so that            *)
(* startswith / endswith / in / find / split act on tokens exactly as they *)
(* act on the characters.  The token "//" is written only where the text   *)
(* has the two slashes that open the authority part.                       *)
(***************************************************************************)
EXTENDS Integers, Sequences, FiniteSets, TLC

\* ------------------------------------------------------------ strings

None == "None"

\* str.lower() on one token: the tokens that have an upper-case spelling.
LowerTok(t) ==
  CASE t = "HTTPS" -> "https"
    [] t = "HTTP" -> "http"
    [] t = "MAILTO" -> "mailto"
    [] t = "YC.GO.KR" -> "yc.go.kr"
    [] t = "FACEBOOK.COM" -> "facebook.com"
    [] t = ".PDF" -> ".pdf"
    [] OTHER -> t

lower(s) == [k \in 1..Len(s) |-> LowerTok(s[k])]

Whitespace == {" "}

\* str.strip(): drop the whitespace at both ends.
RECURSIVE lstrip(_)
lstrip(s) == IF s # <<>> /\ Head(s) \in Whitespace THEN lstrip(Tail(s)) ELSE s

RECURSIVE rstrip(_)
rstrip(s) ==
  IF s # <<>> /\ s[Len(s)] \in Whitespace THEN rstrip(SubSeq(s, 1, Len(s) - 1)) ELSE s

strip(s) == rstrip(lstrip(s))

startswith(s, p) == Len(p) <= Len(s) /\ SubSeq(s, 1, Len(p)) = p

endswith(s, p) == Len(p) <= Len(s) /\ SubSeq(s, Len(s) - Len(p) + 1, Len(s)) = p

\* `sub in s` of Python strings.
Contains(sub, s) ==
  \E k \in 0..(Len(s) - Len(sub)) : SubSeq(s, k + 1, k + Len(sub)) = sub

\* str.find of any of the tokens T: the first index, 0 when there is none.
Find(s, T) ==
  IF \E k \in 1..Len(s) : s[k] \in T
  THEN CHOOSE k \in 1..Len(s) : s[k] \in T /\ \A j \in 1..(k - 1) : s[j] \notin T
  ELSE 0

\* The href kept whole, fragment included.
KeepFragment(href) == href

\* href.split("#")[0]
SplitFragment(href) ==
  LET f == Find(href, {"#"}) IN IF f = 0 THEN href ELSE SubSeq(href, 1, f - 1)

\* ------------------------------------------------------------ urlparse

Delimiters == {":", "//", "/", "?", "#", "@", "=", " "}

\* A token all of whose characters are scheme characters (letters, digits,
\* "+", "-", "."): every token that is not a delimiter.
SchemeChars(t) == t \notin Delimiters

\* The first character of the token is an ASCII letter.
AlphaStart(t) == t \notin Delimiters /\ t \notin {".pdf", ".PDF", ".jpg", ".zip"}

\* urllib.parse.urlparse(url): scheme, netloc, path, query, fragment.
\* (No href of the model holds ";", so params is always empty.)
urlparse(url0) ==
  LET url == lstrip(url0)
      i == Find(url, {":"})
      hasScheme == /\ i > 1
                   /\ AlphaStart(url[1])
                   /\ \A k \in 1..(i - 1) : SchemeChars(url[k])
      scheme == IF hasScheme THEN lower(SubSeq(url, 1, i - 1)) ELSE <<>>
      u1 == IF hasScheme THEN SubSeq(url, i + 1, Len(url)) ELSE url
      hasNet == u1 # <<>> /\ Head(u1) = "//"
      rest == IF hasNet THEN Tail(u1) ELSE u1
      d == Find(rest, {"/", "?", "#"})
      netloc == IF ~hasNet THEN <<>>
                ELSE IF d = 0 THEN rest ELSE SubSeq(rest, 1, d - 1)
      u2 == IF ~hasNet THEN u1
            ELSE IF d = 0 THEN <<>> ELSE SubSeq(rest, d, Len(rest))
      f == Find(u2, {"#"})
      fragment == IF f = 0 THEN <<>> ELSE SubSeq(u2, f + 1, Len(u2))
      u3 == IF f = 0 THEN u2 ELSE SubSeq(u2, 1, f - 1)
      q == Find(u3, {"?"})
      query == IF q = 0 THEN <<>> ELSE SubSeq(u3, q + 1, Len(u3))
      path == IF q = 0 THEN u3 ELSE SubSeq(u3, 1, q - 1)
  IN [scheme |-> scheme, netloc |-> netloc, path |-> path,
      query |-> query, fragment |-> fragment]

\* ------------------------------------------------------------ configuration

BASE_DOMAIN == <<"yc.go.kr">>

START_URL == <<"https", ":", "//", "yc.go.kr", "/", "main.do">>

IGNORED_DOMAINS ==
  { <<"facebook.com">>, <<"instagram.com">>, <<"youtube.com">>, <<"twitter.com">>,
    <<"naver.com">>, <<"daum.net">>, <<"kakao.com">>, <<"google.com">>,
    <<"gov.kr">>, <<"mail.">> }

EXCLUDED_EXTENSIONS ==
  { <<".jpg">>, <<".jpeg">>, <<".png">>, <<".gif">>, <<".bmp">>, <<".svg">>,
    <<".zip">>, <<".rar">>, <<".tar">>, <<".gz">>, <<".7z">>,
    <<".pdf">>, <<".hwp">>, <<".doc">>, <<".docx">>, <<".xls">>, <<".xlsx">>,
    <<".ppt">>, <<".pptx">>, <<".mp4">>, <<".avi">>, <<".mp3">>, <<".wav">>,
    <<".exe">>, <<".apk">>, <<".dll">>, <<".git">>, <<".download">> }

CHECK_INTERVAL == 500

\* ------------------------------------------------------------ is_valid_link

\* is_valid_link with the base-domain test put before the ignored-domain test.
is_valid_link_base_first(href0) ==
  IF href0 = <<>> THEN FALSE
  ELSE
    LET href == lower(strip(href0))
        parsed == urlparse(href)
        full_check_target == parsed.path \o parsed.query
    IN IF \/ startswith(href, <<"mailto", ":">>)
          \/ startswith(href, <<"javascript", ":">>)
          \/ startswith(href, <<"tel", ":">>)
       THEN FALSE
       ELSE IF \E ext \in EXCLUDED_EXTENSIONS : endswith(full_check_target, ext)
       THEN FALSE
       ELSE IF parsed.scheme # <<>> /\ parsed.scheme \notin {<<"http">>, <<"https">>}
       THEN FALSE
       ELSE IF Contains(BASE_DOMAIN, parsed.netloc)
       THEN TRUE
       ELSE FALSE

is_valid_link(href0) ==
  IF href0 = <<>> THEN FALSE
  ELSE
    LET href == lower(strip(href0))
        parsed == urlparse(href)
        full_check_target == parsed.path \o parsed.query
    IN IF \/ startswith(href, <<"mailto", ":">>)
          \/ startswith(href, <<"javascript", ":">>)
          \/ startswith(href, <<"tel", ":">>)
       THEN FALSE
       ELSE IF \E ext \in EXCLUDED_EXTENSIONS : endswith(full_check_target, ext)
       THEN FALSE
       ELSE IF parsed.scheme # <<>> /\ parsed.scheme \notin {<<"http">>, <<"https">>}
       THEN FALSE
       ELSE IF \E domain \in IGNORED_DOMAINS : Contains(domain, href)
       THEN FALSE
       ELSE Contains(BASE_DOMAIN, parsed.netloc)


\* ------------------------------------------------------------ the web

\* Bounds of the model.
MaxCap == 4
MaxWorkers == 2
MaxLinks == 2

PageA == <<"https", ":", "//", "yc.go.kr", "/", "a">>
PageB == <<"https", ":", "//", "yc.go.kr", "/", "b">>
PageC == <<"https", ":", "//", "yc.go.kr", "/", "c">>

Pages == {START_URL, PageA, PageB}

\* The anchor text a page uses for a link to `target`: links to PageA carry a
\* fragment, the others are written plainly.
Href(target) == IF target = PageA THEN target \o <<"#", "top">> ELSE target

\* Anchors every rendered page carries besides its links to other pages.
Noise ==
  { <<>>,
    <<"mailto", ":", "a", "@", "yc.go.kr">>,
    <<"javascript", ":", "void">>,
    <<"https", ":", "//", "facebook.com", "/", "redirect", "?", "to", "=", "yc.go.kr">>,
    <<"https", ":", "//", "yc.go.kr", "/", "doc", ".pdf">>,
    <<"https", ":", "//", "example.com", "/">> }

\* str(e) of the exceptions a render can end in; the message may be empty.
ErrorMessages == {"", "Timeout 7000ms exceeded", "net::ERR_CONNECTION_REFUSED"}

\* What loading a page does: raise (exc is the message) or show links to targets.
Raises(msg) == [exc |-> msg, targets |-> {}]
Renders(targets) == [exc |-> None, targets |-> targets]

PageOutcomes(P) ==
  {Raises(m) : m \in ErrorMessages}
    \cup {Renders(T) : T \in {X \in SUBSET P : Cardinality(X) <= MaxLinks}}

VARIABLES
  MAX_PAGES,           \* configuration, fixed for the run
  CONCURRENT_WORKERS,  \* configuration, fixed for the run
  web,                 \* url -> what rendering it does
  to_visit, visited, all_links, failed_urls,
  last_check,
  current_batch,       \* the batch of the round
  pending,             \* futures whose process_page has not returned
  completed,           \* finished futures as_completed has not yielded yet
  results,             \* results, in the order as_completed yielded them
  idx,                 \* position of the merge loop in results
  pc,                  \* where the orchestrator thread is
  files,               \* the two output files
  submitted,           \* history: how often each url was submitted to the pool
  probe,               \* an href handed to is_valid_link on its own
  verdict              \* <<>>, or <<b>> once is_valid_link(probe) returned b

vars == <<MAX_PAGES, CONCURRENT_WORKERS, web, to_visit, visited, all_links,
          failed_urls, last_check, current_batch, pending, completed, results,
          idx, pc, files, submitted, probe, verdict>>

config == <<MAX_PAGES, CONCURRENT_WORKERS, web>>
sets == <<to_visit, visited, all_links, failed_urls>>
filter_call == <<probe, verdict>>

\* ------------------------------------------------------------ process_page

\* page.goto .. eval_on_selector_all: the page's anchors, or an exception.
\* A url the web does not hold cannot be loaded.
Render(url) ==
  IF url \in DOMAIN web
  THEN [exc |-> web[url].exc, hrefs |-> {Href(t) : t \in web[url].targets} \cup Noise]
  ELSE [exc |-> "net::ERR_NAME_NOT_RESOLVED", hrefs |-> {}]

\* is_valid_link on every anchor a page of the model can carry, computed once.
Anchors == {Href(t) : t \in {START_URL, PageA, PageB, PageC}} \cup Noise
valid == [href \in Anchors |-> is_valid_link(href)]

process_page(url) ==
  LET page == Render(url) IN
  IF page.exc # None
  THEN [url |-> url, new_links |-> {}, error |-> page.exc]
  ELSE [url |-> url,
        new_links |-> {SplitFragment(href) : href \in {h \in page.hrefs : valid[h]}},
        error |-> None]

\* ------------------------------------------------------------ crawl_all_parallel

Min(a, b) == IF a <= b THEN a ELSE b

\* The loop test with the cap compared by <= (one round too many).
LoopConditionInclusive == to_visit # {} /\ Cardinality(visited) <= MAX_PAGES

\* `while to_visit and len(visited) < MAX_PAGES`
LoopCondition == to_visit # {} /\ Cardinality(visited) < MAX_PAGES

\* `list(to_visit)`: the slice left out.
BatchesUnsliced(frontier, n) == {frontier}

\* `list(to_visit)[:CONCURRENT_WORKERS]`: a set iterates in any order.
Batches(frontier, n) ==
  {b \in SUBSET frontier : Cardinality(b) = Min(n, Cardinality(frontier))}

\* `if not error:` -- the test turned round.
TruthyInverted(error) == error = None

\* `if error:` -- the truth value of None and of the empty string is false.
Truthy(error) == error # None /\ error # ""

\* The difference without `- visited`.
FilteredLinksKeepVisited(new_links, vis, frontier) == new_links \ frontier

\* `new_links - visited - to_visit`
FilteredLinks(new_links, vis, frontier) == (new_links \ vis) \ frontier

\* `all_links = filtered_links`: an assignment where the code updates.
ReplaceAllLinks(links, filtered_links) == filtered_links

\* The update left out.
KeepAllLinks(links, filtered_links) == links

\* `all_links.update(filtered_links)`
UpdateAllLinks(links, filtered_links) == links \cup filtered_links

\* Leaving the block without waiting for the futures still running.
NothingToYield == completed = {}

\* The `with ThreadPoolExecutor` block is left when as_completed has yielded
\* every future of the batch.
AllCompleted == pending = {} /\ completed = {}

NoFiles == [recursive_links |-> <<>>, failed_urls |-> <<>>]

InitCrawl ==
  /\ to_visit = {START_URL}
  /\ visited = {}
  /\ all_links = {}
  /\ failed_urls = {}
  /\ last_check = 0
  /\ current_batch = {}
  /\ pending = {}
  /\ completed = {}
  /\ results = <<>>
  /\ idx = 1
  /\ pc = "while"
  /\ files = NoFiles
  /\ submitted = [u \in DOMAIN web |-> 0]
  /\ verdict = <<>>

Init ==
  /\ MAX_PAGES \in 1..MaxCap
  /\ CONCURRENT_WORKERS \in 1..MaxWorkers
  /\ web \in [Pages -> PageOutcomes(Pages)]
  /\ probe = <<>>
  /\ InitCrawl

\* Lines 76-82: the loop test holds; take a batch and submit it to the pool.
Dispatch ==
  /\ pc = "while"
  /\ LoopCondition
  /\ \E batch \in Batches(to_visit, CONCURRENT_WORKERS) :
       /\ current_batch' = batch
       /\ to_visit' = to_visit \ batch
       /\ pending' = batch
       /\ submitted' = [u \in DOMAIN submitted |->
                          IF u \in batch THEN submitted[u] + 1 ELSE submitted[u]]
  /\ completed' = {}
  /\ results' = <<>>
  /\ pc' = "as_completed"
  /\ UNCHANGED <<config, filter_call, visited, all_links, failed_urls, last_check, idx, files>>

\* Lines 45-62, on a pool thread: process_page(url) returns its result.
Worker(url) ==
  /\ url \in pending
  /\ pending' = pending \ {url}
  /\ completed' = completed \cup {process_page(url)}
  /\ UNCHANGED <<config, filter_call, sets, last_check, current_batch, results, idx, pc,
                 files, submitted>>

\* future.result() of a process_page without its try/except: the exception of
\* a failed load is raised again in the orchestrator, which ends the run.
AsCompletedRaising ==
  /\ pc = "as_completed"
  /\ \E r \in completed :
       /\ results' = Append(results, r)
       /\ completed' = completed \ {r}
       /\ pc' = IF r.error # None THEN "aborted" ELSE pc
  /\ UNCHANGED <<config, filter_call, sets, last_check, current_batch, pending, idx,
                 files, submitted>>

\* Lines 83-84: as_completed yields a finished future.
AsCompleted ==
  /\ pc = "as_completed"
  /\ \E r \in completed :
       /\ results' = Append(results, r)
       /\ completed' = completed \ {r}
  /\ UNCHANGED <<config, filter_call, sets, last_check, current_batch, pending, idx, pc,
                 files, submitted>>

\* Line 84 -> 86: every future was yielded; the pool shuts down.
ExitExecutor ==
  /\ pc = "as_completed"
  /\ AllCompleted
  /\ pc' = "merge"
  /\ idx' = 1
  /\ UNCHANGED <<config, filter_call, sets, last_check, current_batch, pending, completed,
                 results, files, submitted>>

\* Lines 86-95: one turn of `for url, new_links, error in results`.
MergeResult ==
  /\ pc = "merge"
  /\ idx <= Len(results)
  /\ LET r == results[idx]
         visited1 == visited \cup {r.url}
         filtered_links == FilteredLinks(r.new_links, visited1, to_visit)
     IN /\ visited' = visited1
        /\ IF Truthy(r.error)
           THEN /\ failed_urls' = failed_urls \cup {r.url}
                /\ UNCHANGED <<to_visit, all_links>>
           ELSE /\ to_visit' = to_visit \cup filtered_links
                /\ all_links' = UpdateAllLinks(all_links, filtered_links)
                /\ UNCHANGED failed_urls
  /\ idx' = idx + 1
  /\ UNCHANGED <<config, filter_call, last_check, current_batch, pending, completed, results,
                 pc, files, submitted>>

\* The end of a round with a checkpoint: the links found so far are written
\* to recursive_links.json in every round.
EndRoundWithCheckpoint ==
  /\ pc = "merge"
  /\ idx > Len(results)
  /\ last_check' = IF Cardinality(visited) - last_check >= CHECK_INTERVAL
                   THEN Cardinality(visited) ELSE last_check
  /\ files' = [files EXCEPT !.recursive_links = Append(@, all_links)]
  /\ pc' = "while"
  /\ UNCHANGED <<config, filter_call, sets, current_batch, pending, completed, results,
                 idx, submitted>>

\* Lines 98-102: the progress snapshot that ends a round.
EndRound ==
  /\ pc = "merge"
  /\ idx > Len(results)
  /\ last_check' = IF Cardinality(visited) - last_check >= CHECK_INTERVAL
                   THEN Cardinality(visited) ELSE last_check
  /\ pc' = "while"
  /\ UNCHANGED <<config, filter_call, sets, current_batch, pending, completed, results, idx,
                 files, submitted>>

\* Lines 76, 105: the loop test fails.
ExitLoop ==
  /\ pc = "while"
  /\ ~LoopCondition
  /\ pc' = "save_links"
  /\ UNCHANGED <<config, filter_call, sets, last_check, current_batch, pending, completed,
                 results, idx, files, submitted>>

\* Lines 108-109: recursive_links.json.
SaveLinks ==
  /\ pc = "save_links"
  /\ files' = [files EXCEPT !.recursive_links = Append(@, all_links)]
  /\ pc' = "save_failed"
  /\ UNCHANGED <<config, filter_call, sets, last_check, current_batch, pending, completed,
                 results, idx, submitted>>

\* Lines 110-113: failed_urls.json and the summary.
SaveFailed ==
  /\ pc = "save_failed"
  /\ files' = [files EXCEPT !.failed_urls = Append(@, failed_urls)]
  /\ pc' = "done"
  /\ UNCHANGED <<config, filter_call, sets, last_check, current_batch, pending, completed,
                 results, idx, submitted>>

Next ==
  \/ Dispatch
  \/ \E url \in current_batch : Worker(url)
  \/ AsCompleted
  \/ ExitExecutor
  \/ MergeResult
  \/ EndRound
  \/ ExitLoop
  \/ SaveLinks
  \/ SaveFailed

Spec == Init /\ [][Next]_vars


\* ------------------------------------------------------------ notions of the claims

\* The loop test is about to be evaluated, or the loop was left: every result
\* of the last batch is merged.
RoundBoundary == pc \in {"while", "save_links", "save_failed", "done"}

\* The loop was left.
Terminated == pc \in {"save_links", "save_failed", "done"}

\* The filter-accepted, fragment-stripped links a fetch of url returns.
Links(url) == process_page(url).new_links

\* The urls reachable from the seed through the links of fetched pages.
RECURSIVE Reach(_)
Reach(R) ==
  LET N == R \cup UNION {Links(u) : u \in R} IN IF N = R THEN R ELSE Reach(N)

Reachable == Reach(Links(START_URL))

\* Every accepted link returned by a fetch whose result was merged.
Observed == UNION {Links(u) : u \in visited}

\* ------------------------------------------------------------ C1

\* C1: at every round boundary no url is in both to_visit and visited.
C1_FrontierVisitedDisjoint == RoundBoundary => to_visit \cap visited = {}

\* ------------------------------------------------------------ C2

\* C2: no url is submitted to process_page more than once in a run.
C2_DispatchedAtMostOnce == \A u \in DOMAIN submitted : submitted[u] <= 1


\* ------------------------------------------------------------ C3

\* The link graph holds more reachable pages than the cap.
MoreThanCap == Cardinality({START_URL} \cup Reachable) > MAX_PAGES

\* C3 (as stated): when the graph holds more reachable pages than MAX_PAGES,
\* the loop ends with exactly MAX_PAGES visited urls.
C3_CapExact == (Terminated /\ MoreThanCap) => Cardinality(visited) = MAX_PAGES

\* C3 (amended): when the graph holds more reachable pages than MAX_PAGES, the
\* loop ends with at least MAX_PAGES and at most MAX_PAGES + CONCURRENT_WORKERS - 1
\* visited urls.
C3_CapWithinBatch ==
  (Terminated /\ MoreThanCap) =>
     /\ Cardinality(visited) >= MAX_PAGES
     /\ Cardinality(visited) <= MAX_PAGES + CONCURRENT_WORKERS - 1

\* The loop ended on the cap, one url past it.
C3_Witness ==
  /\ pc = "done"
  /\ MoreThanCap
  /\ Cardinality(visited) = MAX_PAGES + CONCURRENT_WORKERS - 1
  /\ CONCURRENT_WORKERS > 1

\* ------------------------------------------------------------ C4

\* C4: when fewer than MAX_PAGES urls are reachable from the seed, the loop ends
\* with to_visit empty and visited = the seed and the reachable urls.
C4_Drained ==
  (Terminated /\ Cardinality(Reachable) < MAX_PAGES) =>
     /\ to_visit = {}
     /\ visited = {START_URL} \cup Reachable

\* ------------------------------------------------------------ C5

\* C5: no merge step adds to to_visit a url that is in visited at that moment,
\* the url of the result being merged included.
C5_VisitedNeverRequeued == [][(to_visit' \ to_visit) \cap visited' = {}]_vars

\* A successful result that links to its own page and to the seed was merged.
C5_Witness ==
  /\ pc = "merge"
  /\ idx > 1
  /\ results[idx - 1].error = None
  /\ {results[idx - 1].url, START_URL} \subseteq results[idx - 1].new_links
  /\ results[idx - 1].url # START_URL

\* ------------------------------------------------------------ C6

\* C6: no step removes a member from all_links, visited or failed_urls.
C6_SetsOnlyGrow ==
  [][ /\ all_links \subseteq all_links'
      /\ visited \subseteq visited'
      /\ failed_urls \subseteq failed_urls'
      /\ Cardinality(all_links) <= Cardinality(all_links') ]_vars

\* Two rounds were merged, and each of the three sets has a member.
C6_Witness ==
  /\ pc = "done"
  /\ Cardinality(visited) >= 3
  /\ all_links # {}
  /\ failed_urls # {}

\* ------------------------------------------------------------ C7

\* C7 (as stated): at every round boundary all_links is the set of every accepted
\* link returned by a merged successful fetch.
C7_AllLinksComplete == RoundBoundary => all_links = Observed

\* C7 (amended): at every round boundary all_links is the set of every accepted
\* link returned by a merged successful fetch, other than the seed url.
C7_AllLinksCompleteButSeed == RoundBoundary => all_links = Observed \ {START_URL}

\* A page that links back to the seed was merged.
C7_Witness ==
  /\ RoundBoundary
  /\ START_URL \in Observed
  /\ all_links # {}

\* ------------------------------------------------------------ C8

\* C8: a merged url is in failed_urls exactly when its process_page call ended
\* in the except branch, whatever the message.
C8_FailedIffRaised ==
  \A u \in visited : (u \in failed_urls) <=> (Render(u).exc # None)


\* ------------------------------------------------------------ C9

\* The scenario: seed S, 2 workers, cap 100; S links to A and B, A links to B
\* and C, B raises, C has no links.
ScenarioWeb(msg) ==
  [u \in {START_URL, PageA, PageB, PageC} |->
     CASE u = START_URL -> Renders({PageA, PageB})
       [] u = PageA -> Renders({PageB, PageC})
       [] u = PageB -> Raises(msg)
       [] OTHER -> Renders({})]

ScenarioInit ==
  /\ MAX_PAGES = 100
  /\ CONCURRENT_WORKERS = 2
  /\ \E msg \in ErrorMessages \ {""} : web = ScenarioWeb(msg)
  /\ probe = <<>>
  /\ InitCrawl

\* Every step that can be taken is taken in the end: the orchestrator thread
\* runs on, and every render call returns.
ScenarioSpec == ScenarioInit /\ [][Next]_vars /\ WF_vars(Next)

WorkerReturned == pending' # pending /\ pending' \subseteq pending

\* C10: a worker's step leaves the four sets alone; the sets change, and a batch
\* is selected, only while no fetch of the current batch is running or waiting
\* to be yielded; a batch is selected only when every result is merged.
C10_Barrier ==
  [][ /\ WorkerReturned => UNCHANGED sets
      /\ sets' # sets => (pending = {} /\ completed = {}
                            /\ Len(results) = Cardinality(current_batch))
      /\ current_batch' # current_batch => idx > Len(results) ]_vars

\* Two fetches ran in one batch and the first of their results is merged.
C10_Witness ==
  /\ pc = "merge"
  /\ Cardinality(current_batch) = 2
  /\ idx = 2


\* ------------------------------------------------------------ C11

\* Every step that can be taken is taken in the end: the orchestrator thread
\* runs on, and every render call returns (its two timeouts bound it).
FairSpec == Spec /\ WF_vars(Next)

\* The results the pool has produced in this round.
Produced == completed \cup {results[k] : k \in 1..Len(results)}

\* C11: a load that raises comes back as (url, no links, the message); at every
\* round boundary the whole batch is merged; the loop is left only when its test
\* fails; and every run ends with both files written.
C11_FailureDoesNotAbort ==
  /\ [](\A r \in Produced :
          Render(r.url).exc # None => r.new_links = {} /\ r.error = Render(r.url).exc)
  /\ [](RoundBoundary => current_batch \subseteq visited)
  /\ [](Terminated => ~LoopCondition)
  /\ <>[](/\ pc = "done"
          /\ Len(files.recursive_links) = 1
          /\ Len(files.failed_urls) = 1)

\* A load failed in a batch of two, the other url of the batch was merged, a
\* later batch was fetched, and the run ended with its files written.
C11_Witness ==
  /\ pc = "done"
  /\ failed_urls # {}
  /\ Cardinality(visited \ failed_urls) >= 2
  /\ Cardinality(current_batch) = 1
  /\ \E u \in failed_urls : submitted[u] = 1 /\ u # START_URL
  /\ files.failed_urls = <<failed_urls>>


\* ------------------------------------------------------------ C12

\* One turn of the merge loop is taken.
MergeStep == pc = "merge" /\ idx <= Len(results) /\ idx' = idx + 1

SchemeParts ==
  { <<>>, <<"https", ":">>, <<"HTTPS", ":">>, <<"http", ":">>, <<"ftp", ":">>,
    <<"mailto", ":">> }
AuthorityParts ==
  { <<>>, <<"//", "yc.go.kr">>, <<"//", "example.com">>, <<"//", "facebook.com">>,
    <<"//", "FACEBOOK.COM">>, <<"//", "yc.go.kr", "@", "example.com">>,
    <<"//", "user", "@", "yc.go.kr">> }
PathParts == { <<>>, <<"/", "a">>, <<"/", "doc", ".pdf">>, <<"/", "yc.go.kr">> }
QueryParts ==
  { <<>>, <<"?", "to", "=", "yc.go.kr">>, <<"?", "u", "=", "facebook.com">>,
    <<"?", "f", "=", "doc", ".pdf">> }
FragmentParts == { <<>>, <<"#", "top">> }
PaddingParts == { <<>>, <<" ">> }

FilterInputs ==
  { pad \o sch \o auth \o path \o query \o frag :
      pad \in PaddingParts, sch \in SchemeParts, auth \in AuthorityParts,
      path \in PathParts, query \in QueryParts, frag \in FragmentParts }

\* The configuration of the source; the crawl does not run.
FilterInit ==
  /\ MAX_PAGES = 80000
  /\ CONCURRENT_WORKERS = 16
  /\ web = [u \in {START_URL} |-> Renders({})]
  /\ probe \in FilterInputs
  /\ InitCrawl

\* Lines 28-42: is_valid_link(probe) returns.
ApplyFilter ==
  /\ verdict = <<>>
  /\ verdict' = <<is_valid_link(probe)>>
  /\ UNCHANGED <<config, sets, last_check, current_batch, pending, completed,
                 results, idx, pc, files, submitted, probe>>

FilterSpec == FilterInit /\ [][ApplyFilter]_vars

\* The href as the tests of is_valid_link see it.
Folded == lower(strip(probe))

\* ------------------------------------------------------------ C13

\* The href holds an entry of the ignored-domain list.
HoldsIgnoredDomain == \E domain \in IGNORED_DOMAINS : Contains(domain, Folded)

\* C13: is_valid_link returns false for every href that holds an entry of the
\* ignored-domain list, wherever the base domain appears in it.
C13_IgnoredDomainWins == (verdict # <<>> /\ HoldsIgnoredDomain) => verdict = <<FALSE>>

\* An http(s) href with the base domain as its host and an ignored domain in its
\* query was judged: only the ignored-domain test rejects it.
C13_Witness ==
  /\ verdict = <<FALSE>>
  /\ HoldsIgnoredDomain
  /\ urlparse(Folded).scheme = <<"https">>
  /\ urlparse(Folded).netloc = BASE_DOMAIN
  /\ urlparse(Folded).path = <<"/", "a">>


\* ------------------------------------------------------------ C14

\* The last index of the token t in s, 0 when there is none.
FindLast(s, t) ==
  IF \E k \in 1..Len(s) : s[k] = t
  THEN CHOOSE k \in 1..Len(s) : s[k] = t /\ \A j \in (k + 1)..Len(s) : s[j] # t
  ELSE 0

\* The host of a netloc: what follows the last "@", up to the port.
Hostname(netloc) ==
  LET at == FindLast(netloc, "@")
      hostport == SubSeq(netloc, at + 1, Len(netloc))
      colon == Find(hostport, {":"})
  IN IF colon = 0 THEN hostport ELSE SubSeq(hostport, 1, colon - 1)

\* The href passes rejection rules 1 to 5.
PassesRules1To5 ==
  /\ probe # <<>>
  /\ ~startswith(Folded, <<"mailto", ":">>)
  /\ ~startswith(Folded, <<"javascript", ":">>)
  /\ ~startswith(Folded, <<"tel", ":">>)
  /\ ~\E ext \in EXCLUDED_EXTENSIONS :
        endswith(urlparse(Folded).path \o urlparse(Folded).query, ext)
  /\ urlparse(Folded).scheme \in {<<>>, <<"http">>, <<"https">>}
  /\ ~HoldsIgnoredDomain

\* C14: for an href that passes rules 1 to 5, is_valid_link returns true exactly
\* when the host of the url holds the base domain.
C14_ValidIffHostHoldsBase ==
  (verdict # <<>> /\ PassesRules1To5) =>
     (verdict[1] <=> Contains(BASE_DOMAIN, Hostname(urlparse(Folded).netloc)))


\* ------------------------------------------------------------ C15

\* C15: nothing is written before the loop is left; each file is written at most
\* once; when the run is over each was written once, with the final value of
\* its set.
C15_ArtifactsWrittenOnceAtEnd ==
  /\ ~Terminated => files = NoFiles
  /\ Len(files.recursive_links) <= 1
  /\ Len(files.failed_urls) <= 1
  /\ pc = "save_failed" => files = [recursive_links |-> <<all_links>>, failed_urls |-> <<>>]
  /\ pc = "done" => files = [recursive_links |-> <<all_links>>,
                             failed_urls |-> <<failed_urls>>]

\* A run of several rounds is over and its files hold links and failed urls.
C15_Witness ==
  /\ pc = "done"
  /\ files.recursive_links # <<>>
  /\ files.recursive_links[1] # {}
  /\ files.failed_urls # <<>>
  /\ files.failed_urls[1] # {}
  /\ Cardinality(visited) >= 2


\* ------------------------------------------------------------ C16

\* A batch is selected and submitted.
BatchSelected == submitted' # submitted

\* C16: a selected batch is a subset of to_visit as it was, has
\* min(CONCURRENT_WORKERS, |to_visit|) members, leaves to_visit at selection and
\* is what is in flight; never are more than CONCURRENT_WORKERS fetches in flight.
C16_TakeBatch ==
  [][ /\ BatchSelected =>
           /\ current_batch' \subseteq to_visit
           /\ Cardinality(current_batch') =
                Min(CONCURRENT_WORKERS, Cardinality(to_visit))
           /\ to_visit' = to_visit \ current_batch'
           /\ pending' = current_batch'
      /\ Cardinality(pending') <= CONCURRENT_WORKERS ]_vars

\* A batch was cut out of a larger frontier.
C16_Witness ==
  /\ pc = "as_completed"
  /\ to_visit # {}
  /\ Cardinality(current_batch) = CONCURRENT_WORKERS
  /\ pending = current_batch

\* ------------------------------------------------------------ C17

\* The loop test fails: to_visit is empty or the cap is reached.
ExitCondition == to_visit = {} \/ Cardinality(visited) >= MAX_PAGES

\* C17: a batch is selected only when to_visit is not empty and fewer than
\* MAX_PAGES urls are visited; at a loop test where to_visit is empty or the cap
\* is reached the loop is left; once left it is not entered again; and where it
\* is left one of the two conditions holds.
C17_LoopGuard ==
  [][ /\ BatchSelected => (to_visit # {} /\ Cardinality(visited) < MAX_PAGES)
      /\ (pc = "while" /\ ExitCondition) => Terminated'
      /\ Terminated => (Terminated' /\ submitted' = submitted /\ sets' = sets)
      /\ Terminated' => (to_visit' = {} \/ Cardinality(visited') >= MAX_PAGES) ]_vars

\* The loop was left on the cap with urls still queued.
C17_Witness ==
  /\ pc = "save_links"
  /\ to_visit # {}
  /\ Cardinality(visited) = MAX_PAGES
  /\ MAX_PAGES > 1


\* ------------------------------------------------------------ C18

\* What the link graph alone says the crawl ends with.
FinalVisited == {START_URL} \cup Reachable
FinalAllLinks == Reachable \ {START_URL}
FinalFailed == {u \in FinalVisited : Render(u).exc \notin {None, ""}}

\* C18: when fewer than MAX_PAGES urls are reachable, the sets a run ends with
\* are determined by the link graph: two runs that differ in the batches picked
\* and in the order of completion end with the same visited, all_links and
\* failed_urls.
C18_OrderIndependent ==
  (Terminated /\ Cardinality(Reachable) < MAX_PAGES) =>
     /\ visited = FinalVisited
     /\ all_links = FinalAllLinks
     /\ failed_urls = FinalFailed

\* A run is over in which two urls shared a batch and one of them, merged
\* second, was queued and fetched again: another order would not have done so.
C18_Witness ==
  /\ pc = "done"
  /\ Cardinality(Reachable) < MAX_PAGES
  /\ Cardinality(visited) = 3
  /\ \E u \in visited : submitted[u] = 2
  /\ to_visit = {}

\* ------------------------------------------------------------ C19

\* C19: never are more than MAX_PAGES + CONCURRENT_WORKERS - 1 urls visited.
C19_CapOvershoot == Cardinality(visited) <= MAX_PAGES + CONCURRENT_WORKERS - 1

\* The last result of a full batch is merged and the bound is met.
C19_Witness ==
  /\ pc = "merge"
  /\ idx > Len(results)
  /\ Cardinality(current_batch) = CONCURRENT_WORKERS
  /\ CONCURRENT_WORKERS >= 2
  /\ Cardinality(visited) = MAX_PAGES + CONCURRENT_WORKERS - 1

\* ------------------------------------------------------------ C20

\* C20: at every round boundary every queued url is the seed or is in all_links,
\* and every url of all_links is visited or queued.
C20_Accounting ==
  RoundBoundary =>
     /\ to_visit \subseteq {START_URL} \cup all_links
     /\ all_links \subseteq visited \cup to_visit

\* A round boundary with found links on both sides: some visited, some queued.
C20_Witness ==
  /\ pc = "while"
  /\ all_links \cap visited # {}
  /\ (all_links \cap to_visit) \ visited # {}

====
